---- MODULE Spec2Model ----
(***************************************************************************)
(* Model of the annotation dialog (VideoAnnotationDialog) and of the       *)
(* clipping pipeline (MainWindow.clip_by_annotations) of src/main.py.      *)
(*                                                                         *)
(* Frames are identified by their 1-based index in the source video; a     *)
(* clip is the sequence of source frame indices written to its sink.       *)
(* Python floats are modelled by exact integer arithmetic, so the frame    *)
(* rate is an integer number of frames per second.  A seek of the source   *)
(* is exact, and a read fails exactly when the position is at or beyond    *)
(* the number of frames the source can deliver.  A write to a sink that    *)
(* failed to open does nothing.                                            *)
(***************************************************************************)
EXTENDS Integers, Sequences, FiniteSets, TLC

VARIABLES
    fps,            \* VideoAnnotationDialog.fps
    annotations,    \* VideoAnnotationDialog.annotations, in insertion order
    msg,            \* title and text of the last QMessageBox of the open dialog
    pc,             \* position of the control flow
    it,             \* clip_by_annotations: index of the checking loop
    intervals,      \* clip_by_annotations: local list `intervals`
    ret,            \* clip_by_annotations: the returned (success, message)
    cap,            \* clip_by_annotations: the cv2.VideoCapture
    idx,            \* clip_by_annotations: index of the extraction loop
    current_frame,  \* clip_by_annotations: local `current_frame`
    out_writer,     \* clip_by_annotations: the current cv2.VideoWriter
    clips,          \* frames written to the output file of each intruder
    created,        \* intruders whose output sink opened
    failed,         \* intruders whose output sink failed to open
    readCount,      \* number of cap.read() calls made for each intruder
    frameIn,        \* round trip: the frame index converted to a position
    position,       \* round trip: mediaPlayer.position() in ms
    frameOut,       \* round trip: the frame computed from the position
    input_files,        \* the files chosen with "Select File", by suffix
    file_list,          \* MainWindow.file_list: the suffix of each queued file
    current_file_index, \* MainWindow.current_file_index (zero-based)
    clip_checkbox,      \* "Clip using Annotation" is checked
    output_folder_checkbox, \* "Select Output Folder" is checked
    output_folder,      \* MainWindow.output_folder, "None" when not set
    output_ext,         \* output_combo.currentText()
    convert_enabled,    \* convert_button and select_file_button are enabled
    bpc,                \* position of the main window's control flow
    temp_avi_file,      \* MainWindow.temp_avi_file: "temp", "input" or "None"
    thread,             \* queue positions whose ConversionThread is running
    ffmpeg,             \* outcome of the last run of ffmpeg in video_to_avi
    tempOnDisk,         \* queue positions whose _temp.avi file exists
    inputDeleted,       \* queue positions whose input file was removed
    removeFailed,       \* queue positions whose os.remove raised
    outcome,            \* how far each queued file got, per queue position
    ended,              \* queue positions whose processing is over
    outDir,             \* the directory setting used for each queued file
    clipsOf,            \* queue positions for which clips were written
    batchDone           \* "All conversions completed." was shown

vars == <<fps, annotations, msg, pc, it, intervals, ret, cap, idx,
          current_frame, out_writer, clips, created, failed, readCount,
          frameIn, position, frameOut, input_files, file_list, current_file_index,
          clip_checkbox, output_folder_checkbox, output_folder, output_ext,
          convert_enabled, bpc, temp_avi_file, thread, ffmpeg, tempOnDisk,
          inputDeleted, removeFailed, outcome, ended, outDir, clipsOf,
          batchDone>>

dialogVars == <<fps, annotations, msg>>
clipVars == <<it, intervals, ret, cap, idx, current_frame, out_writer,
              clips, created, failed, readCount>>
convVars == <<frameIn, position, frameOut>>
optionVars == <<clip_checkbox, output_folder_checkbox, output_folder, output_ext>>
diskVars == <<ffmpeg, tempOnDisk, inputDeleted, removeFailed>>
queueVars == <<input_files, file_list, current_file_index, convert_enabled, bpc,
               temp_avi_file, thread, outcome, ended, outDir, clipsOf, batchDone>>
batchVars == <<optionVars, diskVars, queueVars>>

(***************************************************************************)
(* Bounds                                                                  *)
(***************************************************************************)
MaxFrame == 3            \* marks beyond this frame are not explored
MaxPositionSteps == 3    \* media positions are 0, PositionStep, 2*PositionStep ..
PositionStep == 40       \* granularity (ms) of the explored media positions
MaxSrcFrames == 4        \* largest number of readable frames of a source
MaxConvFrame == 12       \* largest frame index of the round trip
MaxConvFps == 60         \* largest frame rate of the round trip
MaxFiles == 2            \* largest number of files selected for one batch

LabelOrder == <<"A", "B", "C">>
Labels == {LabelOrder[i] : i \in 1..Len(LabelOrder)}
NameInputs == Labels \cup {""}     \* "" is the empty text of the input dialog
RawFps == {0, 25, 50}              \* values of cap.get(CAP_PROP_FPS)
Positions == {k * PositionStep : k \in 0..MaxPositionSteps}

(***************************************************************************)
(* Frame/time conversion                                                   *)
(***************************************************************************)
\* the dialog's frame rate: the reported rate, 25 when it is not positive
DialogFps(raw) == IF raw <= 0 THEN 25 ELSE raw

\* variant: the frame is not raised to 1
ms_to_frame_noclamp(pos, rate) == (pos * rate) \div 1000

\* variant: the frame is rounded up instead of truncated
ms_to_frame_ceil(pos, rate) ==
    LET frame == (pos * rate + 999) \div 1000
    IN  IF frame > 0 THEN frame ELSE 1

\* frame = int(current_position / 1000.0 * self.fps); frame if frame > 0 else 1
ms_to_frame(pos, rate) ==
    LET frame == (pos * rate) \div 1000
    IN  IF frame > 0 THEN frame ELSE 1

(***************************************************************************)
(* The annotation store: a Python dict, i.e. a sequence of (key, value)    *)
(* in insertion order; a value is a dict with keys among "enter", "exit".  *)
(***************************************************************************)
EmptyData == [k \in {} |-> 0]

Names(ann) == {ann[i].name : i \in 1..Len(ann)}

IndexOf(ann, name) == CHOOSE i \in 1..Len(ann) : ann[i].name = name

Data(ann, name) == ann[IndexOf(ann, name)].data

Has(ann, name, key) == name \in Names(ann) /\ key \in DOMAIN Data(ann, name)

\* self.annotations[name] = {} if absent; self.annotations[name][key] = frame
SetMark(ann, name, key, frame) ==
    LET base == IF name \in Names(ann)
                THEN ann
                ELSE Append(ann, [name |-> name, data |-> EmptyData])
        i == IndexOf(base, name)
        d == base[i].data
    IN  [base EXCEPT ![i].data =
            [k \in DOMAIN d \cup {key} |-> IF k = key THEN frame ELSE d[k]]]

NoMsg == [title |-> "None", text |-> "None"]

Warning(text) ==
    [title |-> "Warning", text |-> text]

Information(text) ==
    [title |-> "Annotation", text |-> text]

NoReturn == [success |-> FALSE, kind |-> "None", names |-> <<>>]
NoCap == [state |-> "none", frames |-> 0, pos |-> 0]
NoWriter == [name |-> "", state |-> "none"]
NoFfmpeg == [returncode |-> 0, exists |-> FALSE, size |-> 0, ran |-> FALSE]

\* MainWindow.__init__: nothing selected, nothing checked, no thread
InitWindow ==
    /\ input_files = <<>>
    /\ file_list = <<>>
    /\ current_file_index = 0
    /\ clip_checkbox = FALSE
    /\ output_folder_checkbox = FALSE
    /\ output_folder = "None"
    /\ output_ext = ""
    /\ convert_enabled = TRUE
    /\ bpc = "idle"
    /\ temp_avi_file = "None"
    /\ thread = {}
    /\ ffmpeg = NoFfmpeg
    /\ tempOnDisk = {}
    /\ inputDeleted = {}
    /\ removeFailed = {}
    /\ outcome = <<>>
    /\ ended = {}
    /\ outDir = <<>>
    /\ clipsOf = {}
    /\ batchDone = FALSE

Init ==
    /\ fps \in {DialogFps(r) : r \in RawFps}
    /\ annotations = <<>>
    /\ msg = NoMsg
    /\ pc = "dialog"
    /\ it = 0
    /\ intervals = <<>>
    /\ ret = NoReturn
    /\ cap = NoCap
    /\ idx = 0
    /\ current_frame = 0
    /\ out_writer = NoWriter
    /\ clips = [l \in Labels |-> <<>>]
    /\ created = {}
    /\ failed = {}
    /\ readCount = [l \in Labels |-> 0]
    /\ frameIn = 0
    /\ position = 0
    /\ frameOut = 0
    /\ InitWindow

(***************************************************************************)
(* VideoAnnotationDialog.mark_enter                                        *)
(***************************************************************************)
\* variant: the enter mark is written without the test for an earlier one
mark_enter_nocheck(intruder_name, ok, pos) ==
    LET frame == ms_to_frame(pos, fps)
    IN  /\ pc = "dialog"
        /\ frame <= MaxFrame
        /\ IF ok /\ intruder_name # ""
           THEN /\ annotations' = SetMark(annotations, intruder_name, "enter", frame)
                /\ msg' = Information("Marked enter")
           ELSE UNCHANGED <<annotations, msg>>
        /\ UNCHANGED <<fps, pc, clipVars, convVars, batchVars>>

mark_enter(intruder_name, ok, pos) ==
    LET frame == ms_to_frame(pos, fps)
    IN  /\ pc = "dialog"
        /\ frame <= MaxFrame
        /\ IF ok /\ intruder_name # ""
           THEN IF Has(annotations, intruder_name, "enter")
                THEN /\ msg' = Warning("Enter already marked")
                     /\ UNCHANGED annotations
                ELSE /\ annotations' = SetMark(annotations, intruder_name, "enter", frame)
                     /\ msg' = Information("Marked enter")
           ELSE UNCHANGED <<annotations, msg>>
        /\ UNCHANGED <<fps, pc, clipVars, convVars, batchVars>>

(***************************************************************************)
(* VideoAnnotationDialog.mark_exit                                         *)
(***************************************************************************)
\* intruders with an 'enter' marker but no 'exit'
available(ann) ==
    {n \in Names(ann) : "enter" \in DOMAIN Data(ann, n) /\ "exit" \notin DOMAIN Data(ann, n)}

\* the names the prompt of mark_exit can return: an item of the non-editable
\* drop-down list when `available` is not empty, any text otherwise
ExitPrompt(ann) == IF available(ann) # {} THEN available(ann) ELSE NameInputs

\* variant: an exit mark is refused for a label without enter mark
mark_exit_needsenter(intruder_name, ok, pos) ==
    LET frame == ms_to_frame(pos, fps)
    IN  /\ pc = "dialog"
        /\ frame <= MaxFrame
        /\ ok => intruder_name \in ExitPrompt(annotations)
        /\ IF ok /\ intruder_name # ""
           THEN IF Has(annotations, intruder_name, "exit")
                   \/ ~Has(annotations, intruder_name, "enter")
                THEN /\ msg' = Warning("Exit already marked")
                     /\ UNCHANGED annotations
                ELSE /\ annotations' = SetMark(annotations, intruder_name, "exit", frame)
                     /\ msg' = Information("Marked exit")
           ELSE UNCHANGED <<annotations, msg>>
        /\ UNCHANGED <<fps, pc, clipVars, convVars, batchVars>>

mark_exit(intruder_name, ok, pos) ==
    LET frame == ms_to_frame(pos, fps)
    IN  /\ pc = "dialog"
        /\ frame <= MaxFrame
        /\ ok => intruder_name \in ExitPrompt(annotations)
        /\ IF ok /\ intruder_name # ""
           THEN IF Has(annotations, intruder_name, "exit")
                THEN /\ msg' = Warning("Exit already marked")
                     /\ UNCHANGED annotations
                ELSE /\ annotations' = SetMark(annotations, intruder_name, "exit", frame)
                     /\ msg' = Information("Marked exit")
           ELSE UNCHANGED <<annotations, msg>>
        /\ UNCHANGED <<fps, pc, clipVars, convVars, batchVars>>

\* the texts the operator types: the code treats intruder names as opaque
\* keys, so a name that is new to the store is taken to be the first unused
\* label of LabelOrder
TypedNames(ann) ==
    {""} \cup Names(ann) \cup
    {LabelOrder[i] : i \in {Cardinality(Names(ann)) + 1} \cap DOMAIN LabelOrder}

\* what QInputDialog returns: (text, True), or ("", False) when cancelled
PromptResults(ann) == {<<n, TRUE>> : n \in TypedNames(ann)} \cup {<<"", FALSE>>}

MarkEnter ==
    \E r \in PromptResults(annotations), p \in Positions : mark_enter(r[1], r[2], p)

MarkExit ==
    \E r \in PromptResults(annotations), p \in Positions : mark_exit(r[1], r[2], p)

(***************************************************************************)
(* MainWindow.process_next_file: the outcome of annot_dialog.exec()        *)
(***************************************************************************)
\* Done button: the dialog is accepted and clip_by_annotations is called
Accept ==
    /\ pc = "dialog"
    /\ pc' = "check"
    /\ it' = 1
    /\ intervals' = <<>>
    /\ msg' = NoMsg
    /\ UNCHANGED <<fps, annotations, ret, cap, idx, current_frame, out_writer,
                   clips, created, failed, readCount, convVars, batchVars>>

\* the dialog is closed without Done: "Annotation cancelled."
Cancel ==
    /\ pc = "dialog"
    /\ pc' = "cancelled"
    /\ msg' = NoMsg
    /\ UNCHANGED <<fps, annotations, clipVars, convVars, batchVars>>

(***************************************************************************)
(* MainWindow.clip_by_annotations: validation                              *)
(***************************************************************************)
Failure(kind, names) == [success |-> FALSE, kind |-> kind, names |-> names]
Success == [success |-> TRUE, kind |-> "Success", names |-> <<>>]

\* one iteration of `for intruder, data in annotations.items()`
\* variant: the test `exit_frame < enter_frame` is missing
CheckItem_noinverted ==
    /\ pc = "check"
    /\ IF it > Len(annotations)
       THEN /\ pc' = "sort"
            /\ UNCHANGED <<it, intervals, ret>>
       ELSE LET intruder == annotations[it].name
                data == annotations[it].data
            IN  IF "enter" \notin DOMAIN data \/ "exit" \notin DOMAIN data
                THEN /\ ret' = Failure("Incomplete", <<intruder>>)
                     /\ pc' = "returned"
                     /\ UNCHANGED <<it, intervals>>
                ELSE /\ intervals' = Append(intervals, <<data["enter"], data["exit"], intruder>>)
                     /\ it' = it + 1
                     /\ UNCHANGED <<pc, ret>>
    /\ UNCHANGED <<dialogVars, cap, idx, current_frame, out_writer,
                   clips, created, failed, readCount, convVars, batchVars>>

\* variant: the completeness of every label is tested before any inversion
CheckItem_completefirst ==
    /\ pc = "check"
    /\ IF it > Len(annotations)
       THEN /\ pc' = "sort"
            /\ UNCHANGED <<it, intervals, ret>>
       ELSE LET intruder == annotations[it].name
                data == annotations[it].data
                missing == {i \in 1..Len(annotations) :
                               ~({"enter", "exit"} \subseteq DOMAIN annotations[i].data)}
            IN  IF missing # {}
                THEN /\ ret' = [success |-> FALSE, kind |-> "Incomplete",
                                names |-> <<annotations[CHOOSE i \in missing :
                                               \A j \in missing : i <= j].name>>]
                     /\ pc' = "returned"
                     /\ UNCHANGED <<it, intervals>>
                ELSE IF data["exit"] < data["enter"]
                THEN /\ ret' = [success |-> FALSE, kind |-> "Inverted", names |-> <<intruder>>]
                     /\ pc' = "returned"
                     /\ UNCHANGED <<it, intervals>>
                ELSE /\ intervals' = Append(intervals, <<data["enter"], data["exit"], intruder>>)
                     /\ it' = it + 1
                     /\ UNCHANGED <<pc, ret>>
    /\ UNCHANGED <<dialogVars, cap, idx, current_frame, out_writer,
                   clips, created, failed, readCount, convVars, batchVars>>

CheckItem ==
    /\ pc = "check"
    /\ IF it > Len(annotations)
       THEN /\ pc' = "sort"
            /\ UNCHANGED <<it, intervals, ret>>
       ELSE LET intruder == annotations[it].name
                data == annotations[it].data
            IN  IF "enter" \notin DOMAIN data \/ "exit" \notin DOMAIN data
                THEN /\ ret' = Failure("Incomplete", <<intruder>>)
                     /\ pc' = "returned"
                     /\ UNCHANGED <<it, intervals>>
                ELSE IF data["exit"] < data["enter"]
                THEN /\ ret' = Failure("Inverted", <<intruder>>)
                     /\ pc' = "returned"
                     /\ UNCHANGED <<it, intervals>>
                ELSE /\ intervals' = Append(intervals, <<data["enter"], data["exit"], intruder>>)
                     /\ it' = it + 1
                     /\ UNCHANGED <<pc, ret>>
    /\ UNCHANGED <<dialogVars, cap, idx, current_frame, out_writer,
                   clips, created, failed, readCount, convVars, batchVars>>

\* list.sort(key=lambda x: x[0]) is stable: x goes after every element
\* whose key is not greater
RECURSIVE Insert(_, _)
Insert(x, s) ==
    IF s = <<>> THEN <<x>>
    ELSE IF x[1] < Head(s)[1] THEN <<x>> \o s
    ELSE <<Head(s)>> \o Insert(x, Tail(s))

\* variant: the list is left in insertion order
SortByEnter_unsorted(s) == s

RECURSIVE SortByEnter(_)
SortByEnter(s) ==
    IF s = <<>> THEN <<>>
    ELSE Insert(s[Len(s)], SortByEnter(SubSeq(s, 1, Len(s) - 1)))

Sort ==
    /\ pc = "sort"
    /\ intervals' = SortByEnter(intervals)
    /\ pc' = "scan"
    /\ UNCHANGED <<dialogVars, it, ret, cap, idx, current_frame, out_writer,
                   clips, created, failed, readCount, convVars, batchVars>>

\* variant: the last adjacent pair is not examined
Overlapping_shortrange(s) == {i \in 1..(Len(s) - 2) : s[i + 1][1] <= s[i][2]}

\* variant: touching boundaries are not counted as overlap
Overlapping_strict(s) == {i \in 1..(Len(s) - 1) : s[i + 1][1] < s[i][2]}

\* the indices i at which `intervals[i+1][0] <= intervals[i][1]`
Overlapping(s) == {i \in 1..(Len(s) - 1) : s[i + 1][1] <= s[i][2]}

Min(S) == CHOOSE m \in S : \A n \in S : m <= n

\* the loop `for i in range(len(intervals) - 1)`
Scan ==
    /\ pc = "scan"
    /\ IF Overlapping(intervals) # {}
       THEN LET i == Min(Overlapping(intervals))
            IN  /\ ret' = Failure("Overlapping", <<intervals[i][3], intervals[i + 1][3]>>)
                /\ pc' = "returned"
       ELSE /\ pc' = "open_cap"
            /\ UNCHANGED ret
    /\ UNCHANGED <<dialogVars, it, intervals, cap, idx, current_frame,
                   out_writer, clips, created, failed, readCount, convVars, batchVars>>

(***************************************************************************)
(* MainWindow.clip_by_annotations: extraction                              *)
(***************************************************************************)
\* cap = cv2.VideoCapture(str(video_path)); frame_count is the number of
\* frames the source can deliver
\* variant: the test `if not cap.isOpened()` is missing
OpenCap_nocheck(opened, frame_count) ==
    /\ pc = "open_cap"
    /\ cap' = IF opened
              THEN [state |-> "opened", frames |-> frame_count, pos |-> 0]
              ELSE [state |-> "failed", frames |-> 0, pos |-> 0]
    /\ idx' = 1
    /\ pc' = "for"
    /\ UNCHANGED <<dialogVars, it, intervals, ret, current_frame, out_writer,
                   clips, created, failed, readCount, convVars, batchVars>>

OpenCap(opened, frame_count) ==
    /\ pc = "open_cap"
    /\ IF ~opened
       THEN /\ cap' = [state |-> "failed", frames |-> 0, pos |-> 0]
            /\ ret' = Failure("CouldNotOpen", <<>>)
            /\ pc' = "returned"
            /\ UNCHANGED idx
       ELSE /\ cap' = [state |-> "opened", frames |-> frame_count, pos |-> 0]
            /\ idx' = 1
            /\ pc' = "for"
            /\ UNCHANGED ret
    /\ UNCHANGED <<dialogVars, it, intervals, current_frame, out_writer,
                   clips, created, failed, readCount, convVars, batchVars>>

\* cap.set(cv2.CAP_PROP_POS_FRAMES, enter_frame - 1): the zero-based offset
\* variant: the seek goes to enter_frame
SeekTarget_off(enter_frame) == enter_frame

SeekTarget(enter_frame) == enter_frame - 1

\* cap.read(): a frame is delivered while the position is before the end
ReadOk(c) == c.state = "opened" /\ c.pos < c.frames

\* variant: the source is not positioned before the reads of an interval
ForInterval_noseek(sink_ok) ==
    /\ pc = "for"
    /\ IF idx > Len(intervals)
       THEN /\ cap' = [cap EXCEPT !.state = "released"]
            /\ ret' = Success
            /\ pc' = "returned"
            /\ UNCHANGED <<current_frame, out_writer, created, failed>>
       ELSE LET enter_frame == intervals[idx][1]
                intruder == intervals[idx][3]
            IN  /\ out_writer' = [name |-> intruder,
                                  state |-> IF sink_ok THEN "opened" ELSE "failed"]
                /\ created' = IF sink_ok THEN created \cup {intruder} ELSE created
                /\ failed' = IF sink_ok THEN failed ELSE failed \cup {intruder}
                /\ current_frame' = enter_frame
                /\ pc' = "while"
                /\ UNCHANGED <<ret, cap>>
    /\ UNCHANGED <<dialogVars, it, intervals, idx, clips, readCount, convVars, batchVars>>

\* head of `for (enter_frame, exit_frame, intruder) in intervals`: the sink
\* is opened and the source is positioned, or the function returns
ForInterval(sink_ok) ==
    /\ pc = "for"
    /\ IF idx > Len(intervals)
       THEN /\ cap' = [cap EXCEPT !.state = "released"]
            /\ ret' = Success
            /\ pc' = "returned"
            /\ UNCHANGED <<current_frame, out_writer, created, failed>>
       ELSE LET enter_frame == intervals[idx][1]
                intruder == intervals[idx][3]
            IN  /\ out_writer' = [name |-> intruder,
                                  state |-> IF sink_ok THEN "opened" ELSE "failed"]
                /\ created' = IF sink_ok THEN created \cup {intruder} ELSE created
                /\ failed' = IF sink_ok THEN failed ELSE failed \cup {intruder}
                /\ cap' = [cap EXCEPT !.pos = SeekTarget(enter_frame)]
                /\ current_frame' = enter_frame
                /\ pc' = "while"
                /\ UNCHANGED ret
    /\ UNCHANGED <<dialogVars, it, intervals, idx, clips, readCount, convVars, batchVars>>

\* variant: a failed read ends the function with an error
While_readerror ==
    /\ pc = "while"
    /\ LET exit_frame == intervals[idx][2]
           intruder == intervals[idx][3]
       IN  IF current_frame <= exit_frame
           THEN /\ readCount' = [readCount EXCEPT ![intruder] = @ + 1]
                /\ IF ReadOk(cap)
                   THEN /\ cap' = [cap EXCEPT !.pos = @ + 1]
                        /\ clips' = IF out_writer.state = "opened"
                                    THEN [clips EXCEPT ![intruder] = Append(@, cap.pos + 1)]
                                    ELSE clips
                        /\ current_frame' = current_frame + 1
                        /\ UNCHANGED <<pc, ret>>
                   ELSE /\ pc' = "returned"
                        /\ ret' = [success |-> FALSE, kind |-> "ReadFailed", names |-> <<intruder>>]
                        /\ UNCHANGED <<cap, clips, current_frame>>
           ELSE /\ pc' = "release"
                /\ UNCHANGED <<cap, clips, current_frame, readCount, ret>>
    /\ UNCHANGED <<dialogVars, it, intervals, idx, out_writer,
                   created, failed, convVars, batchVars>>

\* one evaluation of `while current_frame <= exit_frame` and of its body
While ==
    /\ pc = "while"
    /\ LET exit_frame == intervals[idx][2]
           intruder == intervals[idx][3]
       IN  IF current_frame <= exit_frame
           THEN /\ readCount' = [readCount EXCEPT ![intruder] = @ + 1]
                /\ IF ReadOk(cap)
                   THEN /\ cap' = [cap EXCEPT !.pos = @ + 1]
                        /\ clips' = IF out_writer.state = "opened"
                                    THEN [clips EXCEPT ![intruder] = Append(@, cap.pos + 1)]
                                    ELSE clips
                        /\ current_frame' = current_frame + 1
                        /\ UNCHANGED pc
                   ELSE /\ pc' = "release"
                        /\ UNCHANGED <<cap, clips, current_frame>>
           ELSE /\ pc' = "release"
                /\ UNCHANGED <<cap, clips, current_frame, readCount>>
    /\ UNCHANGED <<dialogVars, it, intervals, ret, idx, out_writer,
                   created, failed, convVars, batchVars>>

\* variant: the sink is not released
Release_norelease ==
    /\ pc = "release"
    /\ idx' = idx + 1
    /\ pc' = "for"
    /\ UNCHANGED <<dialogVars, it, intervals, ret, cap, current_frame, out_writer,
                   clips, created, failed, readCount, convVars, batchVars>>

\* out_writer.release() and the step to the next interval
Release ==
    /\ pc = "release"
    /\ out_writer' = [out_writer EXCEPT !.state = "released"]
    /\ idx' = idx + 1
    /\ pc' = "for"
    /\ UNCHANGED <<dialogVars, it, intervals, ret, cap, current_frame,
                   clips, created, failed, readCount, convVars, batchVars>>

OpenSource == \E opened \in BOOLEAN, n \in 0..MaxSrcFrames : OpenCap(opened, n)
NextInterval == \E sink_ok \in BOOLEAN : ForInterval(sink_ok)

Next ==
    \/ MarkEnter
    \/ MarkExit
    \/ Accept
    \/ Cancel
    \/ CheckItem
    \/ Sort
    \/ Scan
    \/ OpenSource
    \/ NextInterval
    \/ While
    \/ Release

Spec == Init /\ [][Next]_vars

(***************************************************************************)
(* Extraction of the validated intervals in an arbitrary order             *)
(***************************************************************************)
\* the sequences that hold the elements of the sequence s in some order
Orderings(s) ==
    {[i \in 1..Len(s) |-> s[f[i]]] :
        f \in {g \in [1..Len(s) -> 1..Len(s)] :
                  \A i, j \in 1..Len(s) : i # j => g[i] # g[j]}}

\* the validated intervals are handed to the extraction loop in any order
AnyOrder ==
    /\ pc = "open_cap"
    /\ intervals' \in Orderings(intervals)
    /\ UNCHANGED <<dialogVars, pc, it, ret, cap, idx, current_frame, out_writer,
                   clips, created, failed, readCount, convVars, batchVars>>

NextAnyOrder == Next \/ AnyOrder

SpecAnyOrder == Init /\ [][NextAnyOrder]_vars

(***************************************************************************)
(* Round trip between frame index and media position                       *)
(***************************************************************************)
\* the integers nearest to num / den (two of them at a tie), den > 0
Nearest(num, den) ==
    {n \in (num \div den)..(num \div den + 1) :
        LET d == 2 * (n * den - num)
        IN  -den <= d /\ d <= den}

\* the positions round((frame - 1) * 1000 / fps) of a frame index
frame_to_ms(frame, rate) == Nearest((frame - 1) * 1000, rate)

InitConv ==
    /\ fps \in {DialogFps(r) : r \in 0..MaxConvFps}
    /\ frameIn \in 1..MaxConvFrame
    /\ position = 0
    /\ frameOut = 0
    /\ pc = "frame"
    /\ annotations = <<>>
    /\ msg = NoMsg
    /\ it = 0
    /\ intervals = <<>>
    /\ ret = NoReturn
    /\ cap = NoCap
    /\ idx = 0
    /\ current_frame = 0
    /\ out_writer = NoWriter
    /\ clips = [l \in Labels |-> <<>>]
    /\ created = {}
    /\ failed = {}
    /\ readCount = [l \in Labels |-> 0]
    /\ InitWindow

\* the media player is positioned on the frame
SetPosition ==
    /\ pc = "frame"
    /\ position' \in frame_to_ms(frameIn, fps)
    /\ pc' = "position"
    /\ UNCHANGED <<dialogVars, clipVars, frameIn, frameOut, batchVars>>

\* the frame of the position, as mark_enter and mark_exit compute it
CurrentFrame ==
    /\ pc = "position"
    /\ frameOut' = ms_to_frame(position, fps)
    /\ pc' = "converted"
    /\ UNCHANGED <<dialogVars, clipVars, frameIn, position, batchVars>>

NextConv == SetPosition \/ CurrentFrame

SpecConv == InitConv /\ [][NextConv]_vars

(***************************************************************************)
(* MainWindow: selection, options and the batch of queued files            *)
(*                                                                         *)
(* A file is identified by its position in the queue and described by its  *)
(* suffix.  A selection of a single file is a queue of one file.  The      *)
(* annotation dialog and clip_by_annotations, modelled step by step above, *)
(* appear here by their outcome only.  The handlers of the main window run *)
(* on the GUI thread: while process_next_file waits for ffmpeg or for a    *)
(* modal dialog the main window takes no input.                            *)
(***************************************************************************)
Suffixes == {".seq", ".mp4"}
Folders == {"X"}
AviSizes == {999, 1000}
MinAviSize == 1000

\* MainWindow.OUTPUT_FORMATS, restricted to the suffixes explored
OUTPUT_FORMATS == [e \in Suffixes |->
                      IF e = ".seq" THEN <<".mp4">> ELSE <<".mp4", ".avi">>]

FileLists == UNION {[1..n -> Suffixes] : n \in 1..MaxFiles}
\* how the dialog and clip_by_annotations can end; "Invalid" stands for the
\* three validation failures, which process_next_file does not tell apart
ClipResults == {"cancelled", "Invalid", "CouldNotOpen", "Success"}

otherVars == <<dialogVars, pc, clipVars, convVars>>
historyVars == <<outcome, ended, outDir, clipsOf, batchDone>>

\* the event loop of the main window is running and no modal dialog is open
Responsive == bpc \in {"idle", "thread"}

\* the queue position of the file being processed
Current == current_file_index + 1

InitBatch ==
    /\ fps = 25
    /\ annotations = EmptyData
    /\ msg = NoMsg
    /\ pc = "window"
    /\ it = 0
    /\ intervals = <<>>
    /\ ret = NoReturn
    /\ cap = NoCap
    /\ idx = 0
    /\ current_frame = 0
    /\ out_writer = NoWriter
    /\ clips = [l \in Labels |-> <<>>]
    /\ created = {}
    /\ failed = {}
    /\ readCount = [l \in Labels |-> 0]
    /\ frameIn = 0
    /\ position = 0
    /\ frameOut = 0
    /\ InitWindow

\* outcome, ended, outDir, clipsOf, batchDone and the variables of diskVars
\* record what happened to the files of the batch last started; the record
\* is dropped when another selection is made
ClearLog ==
    /\ outcome' = <<>>
    /\ outDir' = <<>>
    /\ ended' = {}
    /\ clipsOf' = {}
    /\ batchDone' = FALSE
    /\ tempOnDisk' = {}
    /\ inputDeleted' = {}
    /\ removeFailed' = {}
    /\ ffmpeg' = NoFfmpeg

\* "Select File": the chosen files replace the selection and the output
\* formats offered are those of the first file; an empty choice is a cancel
select_file(file_paths) ==
    /\ Responsive
    /\ convert_enabled
    /\ IF file_paths # <<>>
       THEN /\ input_files' = file_paths
            /\ output_ext' = OUTPUT_FORMATS[file_paths[1]][1]
            /\ ClearLog
       ELSE UNCHANGED <<input_files, output_ext, diskVars, historyVars>>
    /\ UNCHANGED <<otherVars, clip_checkbox,
                   output_folder_checkbox, output_folder, file_list,
                   current_file_index, convert_enabled, bpc, temp_avi_file, thread>>

\* the operator picks another entry of output_combo
SelectFormat(e) ==
    /\ Responsive
    /\ input_files # <<>>
    /\ \E k \in DOMAIN OUTPUT_FORMATS[input_files[1]] :
          e = OUTPUT_FORMATS[input_files[1]][k]
    /\ output_ext' = e
    /\ UNCHANGED <<otherVars, diskVars, queueVars, clip_checkbox,
                   output_folder_checkbox, output_folder>>

\* the operator ticks or unticks "Clip using Annotation"
ToggleClip ==
    /\ Responsive
    /\ clip_checkbox' = ~clip_checkbox
    /\ UNCHANGED <<otherVars, diskVars, queueVars, output_folder_checkbox,
                   output_folder, output_ext>>

\* the operator ticks or unticks "Select Output Folder"
toggle_output_folder_button ==
    /\ Responsive
    /\ output_folder_checkbox' = ~output_folder_checkbox
    /\ output_folder' = IF output_folder_checkbox' THEN output_folder ELSE "None"
    /\ UNCHANGED <<otherVars, diskVars, queueVars, clip_checkbox, output_ext>>

\* "Choose Folder", enabled while the box is ticked; "" is a cancel
select_output_folder(folder) ==
    /\ Responsive
    /\ output_folder_checkbox
    /\ output_folder' = IF folder # "" THEN folder ELSE output_folder
    /\ UNCHANGED <<otherVars, diskVars, queueVars, clip_checkbox,
                   output_folder_checkbox, output_ext>>

\* "Convert": the selection becomes the queue and its first file is next
start_conversion ==
    /\ Responsive
    /\ convert_enabled
    /\ IF input_files # <<>>
       THEN /\ file_list' = input_files
            /\ current_file_index' = 0
            /\ bpc' = "next"
            /\ outcome' = [i \in DOMAIN input_files |-> "pending"]
            /\ outDir' = [i \in DOMAIN input_files |-> "unset"]
            /\ ended' = {}
            /\ clipsOf' = {}
            /\ batchDone' = FALSE
            /\ tempOnDisk' = {}
            /\ inputDeleted' = {}
            /\ removeFailed' = {}
            /\ ffmpeg' = NoFfmpeg
       ELSE UNCHANGED <<file_list, current_file_index, bpc, historyVars, diskVars>>
    /\ UNCHANGED <<otherVars, optionVars, input_files, convert_enabled,
                   temp_avi_file, thread>>

\* the directory a file of the batch is written to
OutputDir ==
    IF output_folder # "None" /\ output_folder_checkbox
    THEN output_folder ELSE "beside"

\* the handler stops: both buttons are enabled again and it returns
StopAt(i, how) ==
    /\ outcome' = [outcome EXCEPT ![i] = how]
    /\ ended' = ended \cup {i}
    /\ convert_enabled' = TRUE
    /\ bpc' = "idle"

\* variant: the Convert button stays enabled while the thread runs
ProcessNext_buttonsenabled ==
    /\ bpc = "next"
    /\ IF current_file_index < Len(file_list)
       THEN /\ outDir' = [outDir EXCEPT ![Current] = OutputDir]
            /\ IF clip_checkbox
               THEN IF file_list[Current] \notin {".seq", ".mp4"} \/ output_ext # ".mp4"
                    THEN /\ StopAt(Current, "unsupported")
                         /\ UNCHANGED <<temp_avi_file, thread>>
                    ELSE /\ outcome' = [outcome EXCEPT ![Current] = "running"]
                         /\ temp_avi_file' =
                               IF file_list[Current] = ".seq" THEN "temp" ELSE "input"
                         /\ bpc' =
                               IF file_list[Current] = ".seq" THEN "normalize" ELSE "annotate"
                         /\ UNCHANGED <<ended, convert_enabled, thread>>
               ELSE /\ outcome' = [outcome EXCEPT ![Current] = "running"]
                    /\ thread' = thread \cup {Current}
                    /\ bpc' = "thread"
                    /\ UNCHANGED <<ended, temp_avi_file, convert_enabled>>
            /\ UNCHANGED batchDone
       ELSE /\ batchDone' = TRUE
            /\ convert_enabled' = TRUE
            /\ bpc' = "idle"
            /\ UNCHANGED <<outDir, outcome, ended, temp_avi_file, thread>>
    /\ UNCHANGED <<otherVars, optionVars, diskVars, input_files, file_list,
                   current_file_index, clipsOf>>

\* process_next_file up to the first point where it waits or returns
ProcessNext ==
    /\ bpc = "next"
    /\ IF current_file_index < Len(file_list)
       THEN /\ outDir' = [outDir EXCEPT ![Current] = OutputDir]
            /\ IF clip_checkbox
               THEN IF file_list[Current] \notin {".seq", ".mp4"} \/ output_ext # ".mp4"
                    THEN /\ StopAt(Current, "unsupported")
                         /\ UNCHANGED <<temp_avi_file, thread>>
                    ELSE /\ outcome' = [outcome EXCEPT ![Current] = "running"]
                         /\ temp_avi_file' =
                               IF file_list[Current] = ".seq" THEN "temp" ELSE "input"
                         /\ bpc' =
                               IF file_list[Current] = ".seq" THEN "normalize" ELSE "annotate"
                         /\ UNCHANGED <<ended, convert_enabled, thread>>
               ELSE /\ outcome' = [outcome EXCEPT ![Current] = "running"]
                    /\ thread' = thread \cup {Current}
                    /\ convert_enabled' = FALSE
                    /\ bpc' = "thread"
                    /\ UNCHANGED <<ended, temp_avi_file>>
            /\ UNCHANGED batchDone
       ELSE /\ batchDone' = TRUE
            /\ convert_enabled' = TRUE
            /\ bpc' = "idle"
            /\ UNCHANGED <<outDir, outcome, ended, temp_avi_file, thread>>
    /\ UNCHANGED <<otherVars, optionVars, diskVars, input_files, file_list,
                   current_file_index, clipsOf>>

\* variant: the size of the produced file is not examined
video_to_avi_nosize(run) ==
    /\ run.returncode = 0
    /\ run.exists

\* the verdict of video_to_avi on a run of ffmpeg
video_to_avi(run) ==
    /\ run.returncode = 0
    /\ ~(~run.exists \/ run.size < MinAviSize)

\* ffmpeg has run: its exit code, and the file it left, are any of those
\* explored; an absent file has size 0
Normalize(returncode, exists, size) ==
    /\ bpc = "normalize"
    /\ ffmpeg' = [returncode |-> returncode, exists |-> exists,
                  size |-> IF exists THEN size ELSE 0, ran |-> TRUE]
    /\ tempOnDisk' = IF exists THEN tempOnDisk \cup {Current}
                               ELSE tempOnDisk \ {Current}
    /\ IF video_to_avi(ffmpeg')
       THEN /\ bpc' = "annotate"
            /\ UNCHANGED <<outcome, ended, convert_enabled>>
       ELSE StopAt(Current, "norm_failed")
    /\ UNCHANGED <<otherVars, optionVars, inputDeleted, removeFailed, input_files,
                   file_list, current_file_index, temp_avi_file, thread, outDir,
                   clipsOf, batchDone>>

\* the annotation dialog was closed and, if accepted, clip_by_annotations
\* has returned; clips can only have been written when it returned success
Annotate(result, wrote) ==
    /\ bpc = "annotate"
    /\ wrote => result = "Success"
    /\ outcome' = [outcome EXCEPT ![Current] = result]
    /\ clipsOf' = IF wrote THEN clipsOf \cup {Current} ELSE clipsOf
    /\ bpc' = "cleanup"
    /\ UNCHANGED <<otherVars, optionVars, diskVars, input_files, file_list,
                   current_file_index, convert_enabled, temp_avi_file, thread,
                   ended, outDir, batchDone>>

\* the file temp_avi_file names exists
TempExists ==
    IF temp_avi_file = "temp" THEN Current \in tempOnDisk
                              ELSE Current \notin inputDeleted

\* the try block around os.remove
Remove(remove_ok) ==
    IF file_list[Current] = ".seq" /\ TempExists
    THEN IF remove_ok
         THEN /\ tempOnDisk' = IF temp_avi_file = "temp"
                               THEN tempOnDisk \ {Current} ELSE tempOnDisk
              /\ inputDeleted' = IF temp_avi_file = "temp"
                                 THEN inputDeleted ELSE inputDeleted \cup {Current}
              /\ UNCHANGED removeFailed
         ELSE /\ removeFailed' = removeFailed \cup {Current}
              /\ UNCHANGED <<tempOnDisk, inputDeleted>>
    ELSE UNCHANGED <<tempOnDisk, inputDeleted, removeFailed>>

\* variant: a file whose clipping did not succeed ends the batch
Cleanup_stop(remove_ok) ==
    /\ bpc = "cleanup"
    /\ Remove(remove_ok)
    /\ ended' = ended \cup {Current}
    /\ IF outcome[Current] = "Success"
       THEN /\ current_file_index' = current_file_index + 1
            /\ bpc' = "next"
            /\ UNCHANGED convert_enabled
       ELSE /\ convert_enabled' = TRUE
            /\ bpc' = "idle"
            /\ UNCHANGED current_file_index
    /\ UNCHANGED <<otherVars, optionVars, ffmpeg, input_files, file_list,
                   temp_avi_file, thread, outcome, outDir, clipsOf, batchDone>>

\* the temporary file is removed and the next file is taken
Cleanup(remove_ok) ==
    /\ bpc = "cleanup"
    /\ Remove(remove_ok)
    /\ ended' = ended \cup {Current}
    /\ current_file_index' = current_file_index + 1
    /\ bpc' = "next"
    /\ UNCHANGED <<otherVars, optionVars, ffmpeg, input_files, file_list,
                   convert_enabled, temp_avi_file, thread, outcome, outDir,
                   clipsOf, batchDone>>

\* the finished signal of the thread of file i is delivered
on_conversion_finished(i, success) ==
    /\ Responsive
    /\ i \in thread
    /\ thread' = thread \ {i}
    /\ IF ~success
       THEN /\ StopAt(i, "conv_failed")
            /\ UNCHANGED current_file_index
       ELSE /\ outcome' = [outcome EXCEPT ![i] = "converted"]
            /\ ended' = ended \cup {i}
            /\ current_file_index' = current_file_index + 1
            /\ bpc' = "next"
            /\ UNCHANGED convert_enabled
    /\ UNCHANGED <<otherVars, optionVars, diskVars, input_files, file_list,
                   temp_avi_file, outDir, clipsOf, batchDone>>

SelectFiles == \E file_paths \in FileLists \cup {<<>>} : select_file(file_paths)
PickFormat == \E e \in {".mp4", ".avi"} : SelectFormat(e)
ChooseFolder == \E folder \in Folders \cup {""} : select_output_folder(folder)
RunFfmpeg ==
    \E returncode \in {0, 1}, exists \in BOOLEAN, size \in AviSizes :
        Normalize(returncode, exists, size)
CloseDialog == \E result \in ClipResults, wrote \in BOOLEAN : Annotate(result, wrote)
RemoveTemp == \E remove_ok \in BOOLEAN : Cleanup(remove_ok)
ThreadFinished ==
    \E i \in 1..MaxFiles, success \in BOOLEAN : on_conversion_finished(i, success)

NextBatch ==
    \/ SelectFiles
    \/ PickFormat
    \/ ToggleClip
    \/ toggle_output_folder_button
    \/ ChooseFolder
    \/ start_conversion
    \/ ProcessNext
    \/ RunFfmpeg
    \/ CloseDialog
    \/ RemoveTemp
    \/ ThreadFinished

SpecBatch == InitBatch /\ [][NextBatch]_vars

(***************************************************************************)
(* Notions used by the properties                                          *)
(***************************************************************************)
Mark(ann, name, key) == Data(ann, name)[key]

Complete(ann) ==
    \A i \in 1..Len(ann) : {"enter", "exit"} \subseteq DOMAIN ann[i].data

Inverted(ann, i) == ann[i].data["exit"] < ann[i].data["enter"]

\* the validation part of clip_by_annotations is over
ValidationDone == pc \in {"returned", "open_cap", "for", "while", "release"}

\* the validation part of clip_by_annotations is over and has not failed
ValidationPassed ==
    \/ pc \in {"open_cap", "for", "while", "release"}
    \/ pc = "returned" /\ ret.kind \in {"CouldNotOpen", "Success"}

\* ascending enter_frame order of the entries of a complete store, entries
\* with equal enter_frame in insertion order
Before(ann, i, j) ==
    \/ ann[i].data["enter"] < ann[j].data["enter"]
    \/ ann[i].data["enter"] = ann[j].data["enter"] /\ i < j

Adjacent(ann, i, j) ==
    /\ Before(ann, i, j)
    /\ ~\E k \in 1..Len(ann) : Before(ann, i, k) /\ Before(ann, k, j)

OverlapPair(ann, i, j) ==
    Adjacent(ann, i, j) /\ ann[j].data["enter"] <= ann[i].data["exit"]

\* the extraction of the k-th interval is over
Finished(k) == 1 <= k /\ k < idx

\* the source frames first..last, in order
FrameRange(first, last) == [j \in 1..(last - first + 1) |-> first + j - 1]

(***************************************************************************)
(* Properties                                                              *)
(***************************************************************************)
\* C1: a stored enter (exit) frame of a label never changes, and a step of
\* the dialog that ends with the duplicate warning on display leaves the
\* whole store unchanged.
C1_WriteOnceMarks ==
    [][ /\ \/ annotations' = annotations
           \/ \A l \in Labels, key \in {"enter", "exit"} :
                 Has(annotations, l, key) =>
                     /\ Has(annotations', l, key)
                     /\ Mark(annotations', l, key) = Mark(annotations, l, key)
        /\ (pc = "dialog" /\ msg'.title = "Warning") => annotations' = annotations
        /\ (pc = "dialog" /\ annotations' # annotations) => msg'.title = "Annotation"
      ]_vars

\* a second mark_enter on a label was rejected
C1_Witness ==
    /\ pc = "dialog"
    /\ msg = Warning("Enter already marked")
    /\ \E l \in Labels : Has(annotations, l, "enter")

\* C2: for a complete store without inverted interval, validation fails
\* with the overlap error exactly when two intervals adjacent in ascending
\* enter_frame order satisfy next.enter <= current.exit, and the error names
\* the first such pair of that order.
C2_OverlapRejection ==
    (ValidationDone /\ Complete(annotations)
        /\ \A i \in 1..Len(annotations) : ~Inverted(annotations, i)) =>
    LET n == Len(annotations)
        pairs == {q \in (1..n) \X (1..n) : OverlapPair(annotations, q[1], q[2])}
    IN  /\ (ret.kind = "Overlapping") <=> (pairs # {})
        /\ (ret.kind = "Overlapping") =>
              \E q \in pairs :
                  /\ ret.names = <<annotations[q[1]].name, annotations[q[2]].name>>
                  /\ \A r \in pairs \ {q} : Before(annotations, q[1], r[1])

\* an overlap by touching boundaries was reported, and the overlapping
\* pair is not the first pair of the order
C2_Witness ==
    /\ pc = "returned"
    /\ ret.kind = "Overlapping"
    /\ Len(intervals) = 3
    /\ intervals[2][1] > intervals[1][2]
    /\ intervals[3][1] = intervals[2][2]
    /\ ret.names = <<intervals[2][3], intervals[3][3]>>

\* C3: when validation succeeds, `intervals` holds exactly one interval per
\* label of the store with the label's marks, is sorted ascending by
\* enter_frame, every interval has 1 <= enter <= exit, and any two
\* intervals are disjoint (the later one begins after the earlier one ends).
C3_ValidatedIntervalSet ==
    ValidationPassed =>
        /\ Len(intervals) = Len(annotations)
        /\ \A i \in 1..Len(annotations) :
              \E k \in 1..Len(intervals) :
                  /\ intervals[k][3] = annotations[i].name
                  /\ {"enter", "exit"} \subseteq DOMAIN annotations[i].data
                  /\ intervals[k][1] = annotations[i].data["enter"]
                  /\ intervals[k][2] = annotations[i].data["exit"]
        /\ \A k \in 1..Len(intervals) :
              1 <= intervals[k][1] /\ intervals[k][1] <= intervals[k][2]
        /\ \A j, k \in 1..Len(intervals) :
              j < k => /\ intervals[j][1] <= intervals[k][1]
                       /\ intervals[k][1] > intervals[j][2]

\* three intervals marked out of order passed the validation
C3_Witness ==
    /\ pc = "open_cap"
    /\ Len(intervals) = 3
    /\ annotations[1].name = intervals[3][3]
    /\ annotations[3].name = intervals[1][3]

\* C4: for a complete store that contains an inverted interval, validation
\* returns the inverted-interval error naming an inverted label, and
\* neither the sort nor the overlap scan is ever reached.
C4_InvertedPrecedence ==
    (Complete(annotations)
        /\ \E i \in 1..Len(annotations) : Inverted(annotations, i)) =>
    /\ pc \in {"dialog", "cancelled", "check", "returned"}
    /\ pc = "returned" =>
          /\ ret.kind = "Inverted"
          /\ \E i \in 1..Len(annotations) :
                Inverted(annotations, i) /\ ret.names = <<annotations[i].name>>

\* the inverted-interval error was returned for a store whose other two
\* intervals overlap each other
C4_Witness ==
    /\ pc = "returned"
    /\ ret.kind = "Inverted"
    /\ Complete(annotations)
    /\ Len(annotations) = 3
    /\ \E i, j \in 1..3 :
          /\ i # j
          /\ ~Inverted(annotations, i)
          /\ ~Inverted(annotations, j)
          /\ annotations[i].data["enter"] <= annotations[j].data["enter"]
          /\ annotations[j].data["enter"] <= annotations[i].data["exit"]

\* C5: when the source holds at least exit_frame frames and the sink of the
\* interval opened, the clip of a finished interval is exactly the source
\* frames enter_frame..exit_frame in order.
C5_ExactFrameRange ==
    \A k \in 1..Len(intervals) :
        (Finished(k) /\ intervals[k][3] \in created
            /\ cap.frames >= intervals[k][2]) =>
        /\ clips[intervals[k][3]] = FrameRange(intervals[k][1], intervals[k][2])
        /\ Len(clips[intervals[k][3]]) = intervals[k][2] - intervals[k][1] + 1

\* a clip of several frames that does not begin at the first frame is written
C5_Witness ==
    \E k \in 1..Len(intervals) :
        /\ Finished(k)
        /\ intervals[k][3] \in created
        /\ cap.frames >= intervals[k][2]
        /\ intervals[k][1] > 1
        /\ intervals[k][2] > intervals[k][1]
        /\ Len(clips[intervals[k][3]]) = 2

\* C6: when the source ends before exit_frame, the clip of the interval
\* holds the frames enter_frame..last readable frame (none when the source
\* ends before enter_frame), the read loop ended at the first failed read,
\* and once the source was opened the function returns success after
\* having attempted every interval.
C6_TruncationNotError ==
    /\ \A k \in 1..Len(intervals) :
          (Finished(k) /\ cap.frames < intervals[k][2]) =>
              /\ intervals[k][3] \in created =>
                    clips[intervals[k][3]] = FrameRange(intervals[k][1], cap.frames)
              /\ readCount[intervals[k][3]] =
                    (IF cap.frames >= intervals[k][1]
                     THEN cap.frames - intervals[k][1] + 1 ELSE 0) + 1
    /\ (pc = "returned" /\ cap.state # "none" /\ cap.state # "failed") =>
          /\ ret = Success
          /\ \A k \in 1..Len(intervals) :
                Finished(k) /\ intervals[k][3] \in created \cup failed

\* success was returned after a truncated, non-empty clip that was followed
\* by another interval
C6_Witness ==
    /\ pc = "returned"
    /\ ret.success
    /\ \E k \in 1..Len(intervals) :
          /\ k < Len(intervals)
          /\ intervals[k][3] \in created
          /\ cap.frames < intervals[k][2]
          /\ cap.frames >= intervals[k][1]
          /\ intervals[k + 1][3] \in created

\* C7: when the source cannot be opened, clip_by_annotations returns
\* failure, no sink is opened, no frame is read and no frame is written.
C7_SourceOpenFailure ==
    cap.state = "failed" =>
        /\ pc = "returned"
        /\ ~ret.success
        /\ ret.kind = "CouldNotOpen"
        /\ created = {} /\ failed = {}
        /\ out_writer = NoWriter
        /\ \A l \in Labels : clips[l] = <<>> /\ readCount[l] = 0

\* the source could not be opened for a validated store with intervals
C7_Witness ==
    /\ cap.state = "failed"
    /\ pc = "returned"
    /\ Len(intervals) >= 2

\* C8: when the sink of an interval fails to open, the failure is reported
\* in the result and no frame is read or written for that interval.
C8_SinkFailureReported ==
    \A k \in 1..Len(intervals) :
        (Finished(k) /\ intervals[k][3] \in failed) =>
            /\ readCount[intervals[k][3]] = 0
            /\ clips[intervals[k][3]] = <<>>
            /\ pc = "returned" => ~ret.success

\* C9 as stated: in every state of the dialog, any label without an exit
\* value can be given one by mark_exit.
C9_ExitAcceptsAnyLabel ==
    pc = "dialog" =>
        \A l \in Labels :
            ~Has(annotations, l, "exit") => l \in ExitPrompt(annotations)

\* C9 (amended): mark_exit on a non-empty label without exit value stores
\* the frame, also for a label without enter mark; and while some label has
\* an enter mark without exit mark, only such a label gets an exit mark.
C9_ExitAcceptsOfferedLabel ==
    [][ pc = "dialog" =>
        /\ \A l \in Labels :
              ~Has(annotations, l, "exit") =>
                  /\ available(annotations) = {} => l \in ExitPrompt(annotations)
                  /\ Has(annotations', l, "exit") =>
                        (available(annotations) = {} \/ l \in available(annotations))
                  /\ \A p \in Positions :
                        mark_exit(l, TRUE, p) =>
                            /\ Has(annotations', l, "exit")
                            /\ Mark(annotations', l, "exit") = ms_to_frame(p, fps)
                            /\ msg' = Information("Marked exit")
      ]_vars

\* an exit frame is stored for a label that has no enter mark
C9_Witness ==
    \E l \in Labels :
        Has(annotations, l, "exit") /\ ~Has(annotations, l, "enter")

AtLeastOne(n) == IF n > 1 THEN n ELSE 1

C16_HandlesReleased ==
    /\ pc \in {"for", "while", "release"} => cap.state = "opened"
    /\ pc \in {"for", "returned"} => out_writer.state \in {"none", "released"}
    /\ pc \in {"while", "release"} => out_writer.state \in {"opened", "failed"}
    /\ pc = "returned" => cap.state \in {"none", "failed", "released"}
    /\ (pc = "returned" /\ ret.kind = "Success") => cap.state = "released"

\* the function returned after two sinks were opened one after the other
C16_Witness ==
    /\ pc = "returned"
    /\ cap.state = "released"
    /\ Cardinality(created) >= 2
    /\ out_writer.state = "released"

\* the i-th label of the store lacks a mark
Incomplete(ann, i) == ~({"enter", "exit"} \subseteq DOMAIN ann[i].data)

\* the i-th label of the store is rejected by the checking loop
Rejected(ann, i) == Incomplete(ann, i) \/ Inverted(ann, i)

\* C17 as stated: for a store with a label that lacks a mark, validation
\* returns the incomplete-annotation error naming an incomplete label.
C17_CompletenessFirst ==
    (ValidationDone /\ \E i \in 1..Len(annotations) : Incomplete(annotations, i)) =>
        /\ ret.kind = "Incomplete"
        /\ \E i \in 1..Len(annotations) :
              Incomplete(annotations, i) /\ ret.names = <<annotations[i].name>>

\* C17 (amended): the labels are examined one by one in insertion order,
\* completeness before inversion for each; validation returns the error of
\* the first label that is incomplete or inverted, so the incomplete error
\* is returned unless a complete inverted label was inserted before every
\* incomplete one.
C17_FirstRejectedLabel ==
    (ValidationDone /\ \E i \in 1..Len(annotations) : Rejected(annotations, i)) =>
        LET first == CHOOSE i \in 1..Len(annotations) :
                        /\ Rejected(annotations, i)
                        /\ \A j \in 1..(i - 1) : ~Rejected(annotations, j)
        IN  /\ pc = "returned"
            /\ ret.names = <<annotations[first].name>>
            /\ ret.kind = IF Incomplete(annotations, first)
                          THEN "Incomplete" ELSE "Inverted"

\* the inverted error was returned for a store that holds an incomplete label
C17_Witness ==
    /\ pc = "returned"
    /\ ret.kind = "Inverted"
    /\ \E i \in 1..Len(annotations) : Incomplete(annotations, i)

\* the smaller of two numbers
Least(a, b) == IF a <= b THEN a ELSE b

\* C18: in whatever order the validated intervals are extracted, the clip
\* of a finished interval whose sink opened holds the source frames from
\* enter_frame to the smaller of exit_frame and the last frame of the
\* source, and the number of reads made for it depends on the interval and
\* the source only.
C18_OrderIndependent ==
    \A k \in 1..Len(intervals) :
        Finished(k) =>
            LET l == intervals[k][3]
                enter == Mark(annotations, l, "enter")
                exit == Mark(annotations, l, "exit")
                last == Least(exit, cap.frames)
                delivered == IF last >= enter THEN last - enter + 1 ELSE 0
            IN  /\ clips[l] = IF l \in created THEN FrameRange(enter, last) ELSE <<>>
                /\ readCount[l] = delivered + (IF cap.frames < exit THEN 1 ELSE 0)

\* three intervals were extracted in descending order, the first of them
\* and the last of them with frames in their clips
C18_Witness ==
    /\ pc = "returned"
    /\ ret.kind = "Success"
    /\ Len(intervals) = 3
    /\ intervals[1][1] > intervals[2][1]
    /\ intervals[2][1] > intervals[3][1]
    /\ clips[intervals[1][3]] # <<>>
    /\ clips[intervals[3][3]] # <<>>

\* C19: a complete store without inverted interval in which two labels
\* have the same enter_frame is rejected with the overlap error, so the
\* intervals of a validated set have pairwise different enter_frame.
C19_EqualEnterRejected ==
    /\ (ValidationDone /\ Complete(annotations)
           /\ (\A i \in 1..Len(annotations) : ~Inverted(annotations, i))
           /\ \E i, j \in 1..Len(annotations) :
                 i # j /\ annotations[i].data["enter"] = annotations[j].data["enter"])
       => (pc = "returned" /\ ret.kind = "Overlapping")
    /\ ValidationPassed =>
          \A j, k \in 1..Len(intervals) : j # k => intervals[j][1] # intervals[k][1]

\* the overlap error was returned for three intervals of which only the
\* last two begin at the same frame
C19_Witness ==
    /\ pc = "returned"
    /\ ret.kind = "Overlapping"
    /\ Len(intervals) = 3
    /\ intervals[1][2] < intervals[2][1]
    /\ intervals[2][1] = intervals[3][1]
    /\ intervals[2][2] > intervals[2][1]

\* C11 as stated: for every queued .seq file whose processing has ended, the
\* temporary normalized file no longer exists unless its removal failed, and
\* no input file was ever removed.
C11_TempFileCleanup ==
    /\ \A i \in ended :
          file_list[i] = ".seq" => (i \notin tempOnDisk \/ i \in removeFailed)
    /\ inputDeleted = {}

\* C12: whenever ffmpeg exits non-zero, or the file it produced is absent or
\* smaller than MinAviSize (even with exit code 0), the normalization step
\* ends the file as "norm_failed" and returns to the idle window; the dialog
\* is reached only after a good run; and a file that failed normalization
\* has no clip and keeps that outcome, no dialog being opened, until another
\* batch is started or another selection is made.
BadRun(run) == run.returncode # 0 \/ ~run.exists \/ run.size < MinAviSize

NewBatch == bpc = "idle" /\ bpc' = "next" /\ ended' = {}

C12_NormalizationGate ==
    [][/\ (bpc = "normalize" /\ BadRun(ffmpeg')) =>
              /\ bpc' = "idle"
              /\ outcome'[Current] = "norm_failed"
              /\ Current \in ended'
              /\ Current \notin clipsOf'
       /\ bpc' = "annotate" =>
              (file_list[Current] = ".seq" => ffmpeg'.ran /\ ~BadRun(ffmpeg'))
       /\ \A i \in DOMAIN outcome :
              outcome[i] = "norm_failed" =>
                  /\ bpc' \notin {"annotate", "cleanup"}
                  /\ i \notin clipsOf
                  /\ (i \in DOMAIN outcome' /\ ~NewBatch) =>
                         outcome'[i] = "norm_failed"]_vars

\* ffmpeg exited with code 0, left a file that is too small, and the file
\* was reported as failed
C12_Witness ==
    /\ bpc = "idle"
    /\ ffmpeg.ran /\ ffmpeg.returncode = 0 /\ ffmpeg.exists
    /\ ffmpeg.size < MinAviSize
    /\ \E i \in DOMAIN outcome : outcome[i] = "norm_failed" /\ i \in ended

\* C13: at most one queued file is in process at any moment, it is the file
\* at current_file_index, at most one conversion thread runs and it belongs
\* to that file; a file is begun only when every earlier file of the queue
\* has ended; and current_file_index never decreases, except that a batch
\* started while no file is in process resets it to 0.
InProcess == {i \in DOMAIN outcome : outcome[i] # "pending" /\ i \notin ended}

Sequential ==
    /\ Cardinality(InProcess) <= 1
    /\ Cardinality(thread) <= 1
    /\ thread \subseteq InProcess
    /\ InProcess # {} => InProcess = {Current}
    /\ thread # {} <=> bpc = "thread"
    /\ \A i \in DOMAIN outcome :
          outcome[i] # "pending" => \A j \in 1..(i - 1) : j \in ended

C13_StrictlySequential ==
    /\ []Sequential
    /\ [][\/ /\ current_file_index' >= current_file_index
             /\ current_file_index' <= current_file_index + 1
             /\ current_file_index' > current_file_index => Current \in ended'
          \/ /\ InProcess = {}
             /\ NewBatch
             /\ current_file_index' = 0]_vars

\* the thread of the second file runs after the first file has ended
C13_Witness ==
    /\ bpc = "thread"
    /\ thread = {2}
    /\ 1 \in ended
    /\ current_file_index = 1

\* C14 as stated: once the clipping of a file has ended by a cancelled
\* dialog, a failed validation or an unopenable source, the batch cannot
\* come to rest without having reported completion.
ClipFailures == {"cancelled", "Invalid", "CouldNotOpen"}
Stops == {"norm_failed", "unsupported", "conv_failed"}

C14_ClipFailureNeverStops ==
    (bpc = "idle" /\ \E i \in ended : outcome[i] \in ClipFailures) => batchDone

\* C14 (amended): a file whose clipping ended by a cancelled dialog, a failed
\* validation or an unopenable source has no clip, its cleanup advances the
\* index by one and takes the next file, which is then begun; and the batch
\* comes to rest after it only by reporting completion or because a later
\* file failed normalization, was unsupported or failed its conversion.
C14_ClipFailureAdvances ==
    /\ [](\A i \in DOMAIN outcome :
             outcome[i] \in ClipFailures =>
                 /\ i \notin clipsOf
                 /\ i \in ended => current_file_index >= i
                 /\ (i \in ended /\ bpc = "idle") =>
                        \/ batchDone
                        \/ \E j \in DOMAIN outcome : j > i /\ outcome[j] \in Stops)
    /\ [][/\ (bpc = "cleanup" /\ outcome[Current] \in ClipFailures) =>
                 /\ current_file_index' = current_file_index + 1
                 /\ bpc' = "next"
                 /\ Current \in ended'
                 /\ clipsOf' = clipsOf
          /\ (bpc = "next" /\ current_file_index < Len(file_list)) =>
                 outcome'[Current] # "pending"]_vars

\* the first file was abandoned or rejected, the second one was clipped and
\* the batch reported completion
C14_Witness ==
    /\ batchDone
    /\ Len(file_list) >= 2
    /\ outcome[1] \in ClipFailures
    /\ outcome[2] = "Success"
    /\ 2 \in clipsOf

\* C15 as stated: all files of one batch that have been begun were given
\* the same output-directory setting.
C15_OutputDirFixed ==
    \A i, j \in DOMAIN outDir :
        (outDir[i] # "unset" /\ outDir[j] # "unset") => outDir[i] = outDir[j]

====
